---- MODULE Spec2Model ----
(***************************************************************************)
(* The two offboard-control senders of MAVSDK-Python-UDP-From-Stream:      *)
(*   examples/attitude_sender_example.py       (sender = "attitude")       *)
(*   examples/body_velocity_sender_example.py  (sender = "velocity_body")  *)
(* Both are one pygame loop: every iteration drains the event list         *)
(* returned by pygame.event.get(), applies each event to the module-level  *)
(* control variables, and then, if enabled, sends one packet over UDP.     *)
(*                                                                         *)
(* Units.  roll, pitch, yaw (degrees), velocity_* (m/s) and yaw_rate only  *)
(* ever hold sums of 2.0, 5.0 and 1.0, which are exact in binary floating  *)
(* point, so they are integers here.  thrust is kept in hundredths         *)
(* (0.5 is 50, THRUST_STEP 0.02 is 2, the clamps 1.0 and 0 are 100 and 0). *)
(***************************************************************************)
EXTENDS Integers, Sequences, FiniteSets, TLC

\* ---------------------------------------------------------------- constants
ROLL_PITCH_STEP == 2
YAW_RATE_STEP == 5
THRUST_STEP == 2
DEFAULT_SPEED == 1
NEUTRAL_THRUST == 50
THRUST_MAX == 100
THRUST_MIN == 0

\* ------------------------------------------------------------------- bounds
\* events one call of pygame.event.get() can return
MaxPending == 2
\* events delivered in one run of the program
MaxEvents == 4

Senders == {"attitude", "velocity_body"}

VARIABLES
  sender,            \* which of the two scripts is running
  roll, pitch, yaw, thrust,                       \* attitude sender globals
  velocity_x, velocity_y, velocity_z, yaw_rate,   \* velocity sender globals
  enabled, INCREMENTAL_MODE,
  running,           \* main()'s loop flag
  pc,                \* "get": top of the while loop; "drain": in the for loop;
                     \* "sent": after "if enabled: send"; "close": loop left;
                     \* "done": socket closed
  pending,           \* events of the list pygame.event.get() returned that
                     \* the for loop has not reached yet (their number: the
                     \* program never looks ahead in the list)
  event,             \* the for loop's variable: the event handled last
  sock,              \* "open" | "closed"
  sent,              \* history: datagrams handed to sock.sendto in this
                     \* iteration of the while loop
  fetched, handled,  \* history: length of the list returned by
                     \* pygame.event.get(), and how many of them were applied
  nevents,           \* history: events delivered so far in this run
  held,              \* environment: the axis keys that are down, as of the
                     \* events handled (pygame reports a key down once: the
                     \* scripts do not call pygame.key.set_repeat)
  trace,             \* history: the events applied so far in this run (kept
                     \* only by the scenario specifications)
  codec              \* the packet codec exercised on its own: a packet, the
                     \* buffer pack() made of it and what decoding gave

vars == <<sender, roll, pitch, yaw, thrust, velocity_x, velocity_y, velocity_z,
          yaw_rate, enabled, INCREMENTAL_MODE, running, pc, pending, event,
          sock, sent, fetched, handled, nevents, held, trace, codec>>

globals == <<roll, pitch, yaw, thrust, velocity_x, velocity_y, velocity_z,
             yaw_rate, enabled, INCREMENTAL_MODE>>

\* The program's globals, main()'s running flag and the datagrams sent, as one
\* record the handlers transform.
World ==
  [sender |-> sender, roll |-> roll, pitch |-> pitch, yaw |-> yaw,
   thrust |-> thrust, velocity_x |-> velocity_x, velocity_y |-> velocity_y,
   velocity_z |-> velocity_z, yaw_rate |-> yaw_rate, enabled |-> enabled,
   INCREMENTAL_MODE |-> INCREMENTAL_MODE, running |-> running, sent |-> sent]

Install(w) ==
  /\ roll' = w.roll /\ pitch' = w.pitch /\ yaw' = w.yaw /\ thrust' = w.thrust
  /\ velocity_x' = w.velocity_x /\ velocity_y' = w.velocity_y
  /\ velocity_z' = w.velocity_z /\ yaw_rate' = w.yaw_rate
  /\ enabled' = w.enabled /\ INCREMENTAL_MODE' = w.INCREMENTAL_MODE
  /\ running' = w.running /\ sent' = w.sent

\* ------------------------------------------------------------------ packets
ControlPacket(mode, enable_flag, yaw_control_flag, position, velocity, acceleration, attitude, attitude_rate) ==
  [mode |-> mode, enable_flag |-> enable_flag,
   yaw_control_flag |-> yaw_control_flag, position |-> position,
   velocity |-> velocity, acceleration |-> acceleration,
   attitude |-> attitude, attitude_rate |-> attitude_rate]

\* ---------------------------------------------------------- the packet codec
\* control_packet.py: pack() flattens a packet into a buffer of constant
\* length, every field present in a fixed order and a fixed width; decoding
\* checks the length and the mode tag and reads the fields back.
SetpointMode == <<"ATTITUDE_CONTROL", "VELOCITY_BODY">>
ModeTag(mode) == CHOOSE i \in DOMAIN SetpointMode : SetpointMode[i] = mode

\* width of a numeric field on the wire, in bits
FieldBits == 16
\* a number as a fixed-width field (two's complement), and back
ToField(v) == v % (2 ^ FieldBits)
FromField(f) == IF f >= 2 ^ (FieldBits - 1) THEN f - 2 ^ FieldBits ELSE f
ToFields(t) == [i \in DOMAIN t |-> ToField(t[i])]
FromFields(t) == [i \in DOMAIN t |-> FromField(t[i])]
ToFlag(b) == IF b THEN 1 ELSE 0

\* the fields in wire order
PacketSize == 3 + 3 + 3 + 3 + 4 + 3

\* mutant: the roll-rate and yaw-rate fields change places on the wire
pack_rates_swapped(p) ==
  <<ModeTag(p.mode), ToFlag(p.enable_flag), ToFlag(p.yaw_control_flag)>>
    \o ToFields(p.position) \o ToFields(p.velocity)
    \o ToFields(p.acceleration) \o ToFields(p.attitude)
    \o ToFields(<<p.attitude_rate[3], p.attitude_rate[2], p.attitude_rate[1]>>)

pack(p) ==
  <<ModeTag(p.mode), ToFlag(p.enable_flag), ToFlag(p.yaw_control_flag)>>
    \o ToFields(p.position) \o ToFields(p.velocity)
    \o ToFields(p.acceleration) \o ToFields(p.attitude)
    \o ToFields(p.attitude_rate)

MalformedPacket == [error |-> "MalformedPacket"]
decode(data) ==
  IF Len(data) # PacketSize \/ data[1] \notin DOMAIN SetpointMode
  THEN MalformedPacket
  ELSE ControlPacket(SetpointMode[data[1]], data[2] = 1, data[3] = 1,
                     FromFields(SubSeq(data, 4, 6)),
                     FromFields(SubSeq(data, 7, 9)),
                     FromFields(SubSeq(data, 10, 12)),
                     FromFields(SubSeq(data, 13, 16)),
                     FromFields(SubSeq(data, 17, 19)))

\* no packet yet
NoPacket == [mode |-> "NONE"]

\* A datagram on the wire, with where it was sent from (site: the function or
\* key of the call) and the value of enabled at that moment.
Datagram(w, packet, site) ==
  [packet |-> packet, site |-> site, enabled |-> w.enabled]

send_attitude(w, r, p, y, t, site) ==
  LET packet == ControlPacket("ATTITUDE_CONTROL", TRUE, TRUE, <<0, 0, 0>>,
                              <<0, 0, 0>>, <<0, 0, 0>>, <<r, p, y, t>>,
                              <<0, 0, 0>>)
  IN [w EXCEPT !.sent = Append(@, Datagram(w, packet, site))]

\* mutant: the yaw rate in the roll-rate slot
send_velocity_body_roll_slot(w, vx, vy, vz, yr, site) ==
  LET packet == ControlPacket("VELOCITY_BODY", TRUE, TRUE, <<0, 0, 0>>,
                              <<vx, vy, vz>>, <<0, 0, 0>>, <<0, 0, 0, 0>>,
                              <<yr, 0, 0>>)
  IN [w EXCEPT !.sent = Append(@, Datagram(w, packet, site))]

send_velocity_body(w, vx, vy, vz, yr, site) ==
  LET packet == ControlPacket("VELOCITY_BODY", TRUE, TRUE, <<0, 0, 0>>,
                              <<vx, vy, vz>>, <<0, 0, 0>>, <<0, 0, 0, 0>>,
                              <<0, 0, yr>>)
  IN [w EXCEPT !.sent = Append(@, Datagram(w, packet, site))]

\* the sender's own send function
send_command(w, a, b, c, d, site) ==
  IF w.sender = "attitude" THEN send_attitude(w, a, b, c, d, site)
  ELSE send_velocity_body(w, a, b, c, d, site)

\* ----------------------------------------------------------- button actions
\* mutant: Enable sends the current command at once
enable_control_sends(w) ==
  IF w.sender = "attitude"
  THEN send_attitude([w EXCEPT !.enabled = TRUE], w.roll, w.pitch, w.yaw,
                     w.thrust, "enable_control")
  ELSE send_velocity_body([w EXCEPT !.enabled = TRUE], w.velocity_x,
                          w.velocity_y, w.velocity_z, w.yaw_rate,
                          "enable_control")

enable_control(w) == [w EXCEPT !.enabled = TRUE]

\* mutant: Disable also centres the axes it reports as zero
disable_control_centred(w) ==
  send_command([w EXCEPT !.enabled = FALSE, !.roll = 0, !.pitch = 0,
                         !.yaw = 0, !.velocity_x = 0, !.velocity_y = 0,
                         !.velocity_z = 0, !.yaw_rate = 0],
               0, 0, 0, 0, "disable_control")

disable_control(w) ==
  send_command([w EXCEPT !.enabled = FALSE], 0, 0, 0, 0, "disable_control")

\* mutant: Hold sends a zero command, as Disable does
reset_control_sends(w) ==
  send_command(IF w.sender = "attitude"
               THEN [w EXCEPT !.roll = 0, !.pitch = 0, !.yaw = 0,
                              !.thrust = NEUTRAL_THRUST]
               ELSE [w EXCEPT !.velocity_x = 0, !.velocity_y = 0,
                              !.velocity_z = 0, !.yaw_rate = 0],
               0, 0, 0, 0, "reset_control")

\* mutant: Hold wrapped in the test of enabled, as the axis actions are
reset_control_if_enabled(w) ==
  IF ~ w.enabled THEN w
  ELSE IF w.sender = "attitude"
       THEN [w EXCEPT !.roll = 0, !.pitch = 0, !.yaw = 0, !.thrust = NEUTRAL_THRUST]
       ELSE [w EXCEPT !.velocity_x = 0, !.velocity_y = 0, !.velocity_z = 0,
                      !.yaw_rate = 0]

reset_control(w) ==
  IF w.sender = "attitude"
  THEN [w EXCEPT !.roll = 0, !.pitch = 0, !.yaw = 0, !.thrust = NEUTRAL_THRUST]
  ELSE [w EXCEPT !.velocity_x = 0, !.velocity_y = 0, !.velocity_z = 0,
                 !.yaw_rate = 0]

\* mutant: the switch of law also centres the axes
toggle_mode_centred(w) ==
  [w EXCEPT !.INCREMENTAL_MODE = ~ @, !.roll = 0, !.pitch = 0, !.yaw = 0,
            !.velocity_x = 0, !.velocity_y = 0, !.velocity_z = 0,
            !.yaw_rate = 0]

toggle_mode(w) == [w EXCEPT !.INCREMENTAL_MODE = ~ @]

Min(a, b) == IF a < b THEN a ELSE b
Max(a, b) == IF a > b THEN a ELSE b

\* mutant: += for -=
adjust_pitch_up_plus(w) ==
  [w EXCEPT !.pitch = @ + (IF w.INCREMENTAL_MODE THEN ROLL_PITCH_STEP
                                                 ELSE - ROLL_PITCH_STEP)]

\* attitude sender: "x -= A if C else B" is x -= (A if C else B)
adjust_pitch_up(w) ==
  [w EXCEPT !.pitch = @ - (IF w.INCREMENTAL_MODE THEN ROLL_PITCH_STEP
                                                 ELSE - ROLL_PITCH_STEP)]
adjust_pitch_down(w) ==
  [w EXCEPT !.pitch = @ - (IF w.INCREMENTAL_MODE THEN ROLL_PITCH_STEP
                                                 ELSE ROLL_PITCH_STEP)]
adjust_roll_left(w) ==
  [w EXCEPT !.roll = @ - (IF w.INCREMENTAL_MODE THEN ROLL_PITCH_STEP
                                                ELSE - ROLL_PITCH_STEP)]
adjust_roll_right(w) ==
  [w EXCEPT !.roll = @ + (IF w.INCREMENTAL_MODE THEN ROLL_PITCH_STEP
                                                ELSE ROLL_PITCH_STEP)]
\* mutant: the increment without the clamp
increase_thrust_unclamped(w) ==
  [w EXCEPT !.thrust = @ + THRUST_STEP]
increase_thrust(w) ==
  [w EXCEPT !.thrust = Min(@ + THRUST_STEP, THRUST_MAX)]
decrease_thrust(w) ==
  [w EXCEPT !.thrust = Max(@ - THRUST_STEP, THRUST_MIN)]
att_yaw_left(w) ==
  [w EXCEPT !.yaw = @ - (IF ~ w.INCREMENTAL_MODE THEN YAW_RATE_STEP
                                                 ELSE @ - YAW_RATE_STEP)]
att_yaw_right(w) ==
  [w EXCEPT !.yaw = @ + (IF ~ w.INCREMENTAL_MODE THEN YAW_RATE_STEP
                                                 ELSE @ + YAW_RATE_STEP)]

\* velocity sender: "x = A if C else B" is x = (A if C else B)
move_forward(w) ==
  [w EXCEPT !.velocity_x = IF w.INCREMENTAL_MODE THEN @ + DEFAULT_SPEED
                                                 ELSE DEFAULT_SPEED]
move_backward(w) ==
  [w EXCEPT !.velocity_x = IF w.INCREMENTAL_MODE THEN @ - DEFAULT_SPEED
                                                 ELSE - DEFAULT_SPEED]
move_left(w) ==
  [w EXCEPT !.velocity_y = IF w.INCREMENTAL_MODE THEN @ - DEFAULT_SPEED
                                                 ELSE - DEFAULT_SPEED]
move_right(w) ==
  [w EXCEPT !.velocity_y = IF w.INCREMENTAL_MODE THEN @ + DEFAULT_SPEED
                                                 ELSE DEFAULT_SPEED]
ascend(w) ==
  [w EXCEPT !.velocity_z = IF w.INCREMENTAL_MODE THEN @ - DEFAULT_SPEED
                                                 ELSE - DEFAULT_SPEED]
descend(w) ==
  [w EXCEPT !.velocity_z = IF w.INCREMENTAL_MODE THEN @ + DEFAULT_SPEED
                                                 ELSE DEFAULT_SPEED]
vel_yaw_left(w) ==
  [w EXCEPT !.yaw_rate = IF ~ w.INCREMENTAL_MODE THEN - YAW_RATE_STEP
                                                 ELSE @ - YAW_RATE_STEP]
\* mutant: the sign of yaw_left left in place
vel_yaw_right_negative(w) ==
  [w EXCEPT !.yaw_rate = IF ~ w.INCREMENTAL_MODE THEN - YAW_RATE_STEP
                                                 ELSE @ - YAW_RATE_STEP]
vel_yaw_right(w) ==
  [w EXCEPT !.yaw_rate = IF ~ w.INCREMENTAL_MODE THEN YAW_RATE_STEP
                                                 ELSE @ + YAW_RATE_STEP]

\* resets for the instant return mode
\* mutant: a reset that does nothing
reset_roll_keep(w) == w
reset_roll(w) == [w EXCEPT !.roll = 0]
reset_pitch(w) == [w EXCEPT !.pitch = 0]
\* mutant: the commented-out body of reset_thrust restored
reset_thrust_mid(w) == [w EXCEPT !.thrust = NEUTRAL_THRUST]
\* the body of reset_thrust is commented out: pass
reset_thrust(w) == w
reset_yaw(w) == [w EXCEPT !.yaw = 0]
reset_velocity_x(w) == [w EXCEPT !.velocity_x = 0]
reset_velocity_y(w) == [w EXCEPT !.velocity_y = 0]
reset_velocity_z(w) == [w EXCEPT !.velocity_z = 0]
reset_yaw_rate(w) == [w EXCEPT !.yaw_rate = 0]

\* a function of the script, by name
call(f, w) ==
  CASE f = "enable_control" -> enable_control(w)
    [] f = "disable_control" -> disable_control(w)
    [] f = "reset_control" -> reset_control(w)
    [] f = "toggle_mode" -> toggle_mode(w)
    [] f = "adjust_pitch_up" -> adjust_pitch_up(w)
    [] f = "adjust_pitch_down" -> adjust_pitch_down(w)
    [] f = "adjust_roll_left" -> adjust_roll_left(w)
    [] f = "adjust_roll_right" -> adjust_roll_right(w)
    [] f = "increase_thrust" -> increase_thrust(w)
    [] f = "decrease_thrust" -> decrease_thrust(w)
    [] f = "att_yaw_left" -> att_yaw_left(w)
    [] f = "att_yaw_right" -> att_yaw_right(w)
    [] f = "move_forward" -> move_forward(w)
    [] f = "move_backward" -> move_backward(w)
    [] f = "move_left" -> move_left(w)
    [] f = "move_right" -> move_right(w)
    [] f = "ascend" -> ascend(w)
    [] f = "descend" -> descend(w)
    [] f = "vel_yaw_left" -> vel_yaw_left(w)
    [] f = "vel_yaw_right" -> vel_yaw_right(w)
    [] f = "reset_roll" -> reset_roll(w)
    [] f = "reset_pitch" -> reset_pitch(w)
    [] f = "reset_thrust" -> reset_thrust(w)
    [] f = "reset_yaw" -> reset_yaw(w)
    [] f = "reset_velocity_x" -> reset_velocity_x(w)
    [] f = "reset_velocity_y" -> reset_velocity_y(w)
    [] f = "reset_velocity_z" -> reset_velocity_z(w)
    [] f = "reset_yaw_rate" -> reset_yaw_rate(w)

\* the wrappers: run the action only if enabled / only if not incremental
check_enabled(action, w) == IF w.enabled THEN call(action, w) ELSE w
check_and_reset(action, w) == IF ~ w.INCREMENTAL_MODE THEN call(action, w) ELSE w

\* ------------------------------------------------------------------ buttons
Button(text, position, size, action, release_action) ==
  [text |-> text, position |-> position, size |-> size, action |-> action,
   release_action |-> release_action]

\* an action is <<wrapper, function>>; wrapper "" is the bare function, and
\* <<>> is release_action = None
run(action, w) ==
  CASE action = <<>> -> w
    [] action[1] = "check_enabled" -> check_enabled(action[2], w)
    [] action[1] = "check_and_reset" -> check_and_reset(action[2], w)
    [] OTHER -> call(action[2], w)

attitude_buttons ==
  << Button("Enable", <<50, 150>>, <<100, 50>>, <<"", "enable_control">>, <<>>),
     Button("Disable", <<50, 220>>, <<100, 50>>, <<"", "disable_control">>, <<>>),
     Button("Hold", <<50, 290>>, <<100, 50>>, <<"", "reset_control">>, <<>>),
     Button("Mode", <<50, 360>>, <<100, 50>>, <<"", "toggle_mode">>, <<>>),
     Button("Pitch Up", <<600, 290>>, <<100, 50>>,
            <<"check_enabled", "adjust_pitch_up">>,
            <<"check_and_reset", "reset_pitch">>),
     Button("Pitch Down", <<600, 150>>, <<100, 50>>,
            <<"check_enabled", "adjust_pitch_down">>,
            <<"check_and_reset", "reset_pitch">>),
     Button("Roll Left", <<500, 220>>, <<100, 50>>,
            <<"check_enabled", "adjust_roll_left">>,
            <<"check_and_reset", "reset_roll">>),
     Button("Roll Right", <<700, 220>>, <<100, 50>>,
            <<"check_enabled", "adjust_roll_right">>,
            <<"check_and_reset", "reset_roll">>),
     Button("Increase Thrust", <<275, 150>>, <<150, 50>>,
            <<"check_enabled", "increase_thrust">>,
            <<"check_and_reset", "reset_thrust">>),
     Button("Decrease Thrust", <<275, 290>>, <<150, 50>>,
            <<"check_enabled", "decrease_thrust">>,
            <<"check_and_reset", "reset_thrust">>),
     Button("Yaw Left", <<200, 220>>, <<100, 50>>,
            <<"check_enabled", "att_yaw_left">>,
            <<"check_and_reset", "reset_yaw">>),
     Button("Yaw Right", <<375, 220>>, <<100, 50>>,
            <<"check_enabled", "att_yaw_right">>,
            <<"check_and_reset", "reset_yaw">>) >>

velocity_buttons ==
  << Button("Enable", <<50, 150>>, <<100, 50>>, <<"", "enable_control">>, <<>>),
     Button("Disable", <<50, 220>>, <<100, 50>>, <<"", "disable_control">>, <<>>),
     Button("Hold", <<50, 290>>, <<100, 50>>, <<"", "reset_control">>, <<>>),
     Button("Mode", <<50, 360>>, <<100, 50>>, <<"", "toggle_mode">>, <<>>),
     Button("Forward", <<600, 150>>, <<100, 50>>,
            <<"check_enabled", "move_forward">>,
            <<"check_and_reset", "reset_velocity_x">>),
     Button("Backward", <<600, 290>>, <<100, 50>>,
            <<"check_enabled", "move_backward">>,
            <<"check_and_reset", "reset_velocity_x">>),
     Button("Left", <<500, 220>>, <<100, 50>>,
            <<"check_enabled", "move_left">>,
            <<"check_and_reset", "reset_velocity_y">>),
     Button("Right", <<700, 220>>, <<100, 50>>,
            <<"check_enabled", "move_right">>,
            <<"check_and_reset", "reset_velocity_y">>),
     Button("Ascend", <<275, 150>>, <<100, 50>>,
            <<"check_enabled", "ascend">>,
            <<"check_and_reset", "reset_velocity_z">>),
     Button("Descend", <<275, 290>>, <<100, 50>>,
            <<"check_enabled", "descend">>,
            <<"check_and_reset", "reset_velocity_z">>),
     Button("Yaw Left", <<175, 220>>, <<100, 50>>,
            <<"check_enabled", "vel_yaw_left">>,
            <<"check_and_reset", "reset_yaw_rate">>),
     Button("Yaw Right", <<375, 220>>, <<100, 50>>,
            <<"check_enabled", "vel_yaw_right">>,
            <<"check_and_reset", "reset_yaw_rate">>) >>

buttons(snd) == IF snd = "attitude" THEN attitude_buttons ELSE velocity_buttons

\* Button.click and Button.release (the active flag only colours the button)
click(b, w) == run(b.action, w)
release(b, w) == run(b.release_action, w)

is_clicked(b, mouse_pos) ==
  /\ b.position[1] <= mouse_pos[1]
  /\ mouse_pos[1] <= b.position[1] + b.size[1]
  /\ b.position[2] <= mouse_pos[2]
  /\ mouse_pos[2] <= b.position[2] + b.size[2]

ButtonNamed(snd, text) ==
  CHOOSE b \in {buttons(snd)[i] : i \in DOMAIN buttons(snd)} : b.text = text

Centre(b) ==
  <<b.position[1] + b.size[1] \div 2, b.position[2] + b.size[2] \div 2>>

\* ------------------------------------------------------------------- events
\* pygame events: type, key (of KEYDOWN and KEYUP), and for MOUSEBUTTONDOWN
\* the position pygame.mouse.get_pos() returns while the event is handled.
NoKey == "-"
NoPos == <<0, 0>>
Event(type, key, pos) == [type |-> type, key |-> key, pos |-> pos]

ControlKeys == {"K_q", "K_e", "K_c", "K_m", "K_h"}
AxisKeys == {"K_w", "K_s", "K_a", "K_d", "K_UP", "K_DOWN", "K_LEFT", "K_RIGHT"}
\* K_x stands for the keys the scripts do not bind
Keys == ControlKeys \cup AxisKeys \cup {"K_x"}

\* one point on every button and one on none
MousePoints(snd) ==
  {Centre(buttons(snd)[i]) : i \in DOMAIN buttons(snd)} \cup {NoPos}

Events(snd, keys, points) ==
  {Event("QUIT", NoKey, NoPos), Event("MOUSEBUTTONUP", NoKey, NoPos)}
    \cup {Event("KEYDOWN", k, NoPos) : k \in keys}
    \cup {Event("KEYUP", k, NoPos) : k \in keys}
    \cup {Event("MOUSEBUTTONDOWN", NoKey, p) : p \in points}

AllEvents(snd) == Events(snd, Keys, MousePoints(snd))

\* ------------------------------------------------------------ event handlers
\* if enabled: the axis keys
AxisKeyDown(w, key) ==
  IF w.sender = "attitude"
  THEN CASE key = "K_w" -> adjust_pitch_up(w)
         [] key = "K_s" -> adjust_pitch_down(w)
         [] key = "K_a" -> adjust_roll_left(w)
         [] key = "K_d" -> adjust_roll_right(w)
         [] key = "K_UP" -> increase_thrust(w)
         [] key = "K_DOWN" -> decrease_thrust(w)
         [] key = "K_LEFT" -> att_yaw_left(w)
         [] key = "K_RIGHT" -> att_yaw_right(w)
         [] OTHER -> w
  ELSE CASE key = "K_w" -> move_forward(w)
         [] key = "K_s" -> move_backward(w)
         [] key = "K_a" -> move_left(w)
         [] key = "K_d" -> move_right(w)
         [] key = "K_UP" -> ascend(w)
         [] key = "K_DOWN" -> descend(w)
         [] key = "K_LEFT" -> vel_yaw_left(w)
         [] key = "K_RIGHT" -> vel_yaw_right(w)
         [] OTHER -> w

\* K_q: the safety stop, then running = False
QuitKey(w) ==
  [send_command(w, 0, 0, 0, 0, "K_q") EXCEPT !.running = FALSE]

\* mutant: the axis keys without the test of enabled
KeyDown_ungated(w, key) ==
  LET w1 == CASE key = "K_q" -> QuitKey(w)
              [] key = "K_e" -> enable_control(w)
              [] key = "K_c" -> disable_control(w)
              [] key = "K_m" -> toggle_mode(w)
              [] key = "K_h" -> reset_control(w)
              [] OTHER -> w
  IN AxisKeyDown(w1, key)

KeyDown(w, key) ==
  LET w1 == CASE key = "K_q" -> QuitKey(w)
              [] key = "K_e" -> enable_control(w)
              [] key = "K_c" -> disable_control(w)
              [] key = "K_m" -> toggle_mode(w)
              [] key = "K_h" -> reset_control(w)
              [] OTHER -> w
  IN IF w1.enabled THEN AxisKeyDown(w1, key) ELSE w1

KeyUp(w, key) ==
  IF ~ w.INCREMENTAL_MODE
  THEN IF w.sender = "attitude"
       THEN CASE key \in {"K_w", "K_s"} -> reset_pitch(w)
              [] key \in {"K_a", "K_d"} -> reset_roll(w)
              [] key \in {"K_UP", "K_DOWN"} -> reset_thrust(w)
              [] key \in {"K_LEFT", "K_RIGHT"} -> reset_yaw(w)
              [] OTHER -> w
       ELSE CASE key \in {"K_w", "K_s"} -> reset_velocity_x(w)
              [] key \in {"K_a", "K_d"} -> reset_velocity_y(w)
              [] key \in {"K_UP", "K_DOWN"} -> reset_velocity_z(w)
              [] key \in {"K_LEFT", "K_RIGHT"} -> reset_yaw_rate(w)
              [] OTHER -> w
  ELSE w

\* for button in buttons: if button.is_clicked(mouse_pos): button.click()
RECURSIVE ClickAll(_, _, _)
ClickAll(bs, mouse_pos, w) ==
  IF bs = <<>> THEN w
  ELSE ClickAll(Tail(bs), mouse_pos,
                IF is_clicked(Head(bs), mouse_pos) THEN click(Head(bs), w)
                ELSE w)

\* for button in buttons: button.release()
RECURSIVE ReleaseAll(_, _)
ReleaseAll(bs, w) ==
  IF bs = <<>> THEN w ELSE ReleaseAll(Tail(bs), release(Head(bs), w))

MouseButtonDown(w, mouse_pos) == ClickAll(buttons(w.sender), mouse_pos, w)
MouseButtonUp(w) == ReleaseAll(buttons(w.sender), w)
\* mutant: the window's close event is not handled
WindowClose_ignored(w) == w
WindowClose(w) == [w EXCEPT !.running = FALSE]

\* one pass of the body of "for event in pygame.event.get()"
Handle(w, ev) ==
  CASE ev.type = "QUIT" -> WindowClose(w)
    [] ev.type = "KEYDOWN" -> KeyDown(w, ev.key)
    [] ev.type = "KEYUP" -> KeyUp(w, ev.key)
    [] ev.type = "MOUSEBUTTONDOWN" -> MouseButtonDown(w, ev.pos)
    [] ev.type = "MOUSEBUTTONUP" -> MouseButtonUp(w)

\* ---------------------------------------------------------------- main loop
NoEvent == Event("NONE", NoKey, NoPos)

Init ==
  /\ sender \in Senders
  /\ roll = 0 /\ pitch = 0 /\ yaw = 0 /\ thrust = NEUTRAL_THRUST
  /\ velocity_x = 0 /\ velocity_y = 0 /\ velocity_z = 0 /\ yaw_rate = 0
  /\ enabled = FALSE /\ INCREMENTAL_MODE = FALSE
  /\ running = TRUE /\ pc = "get"
  /\ pending = 0 /\ event = NoEvent /\ sock = "open" /\ sent = <<>>
  /\ fetched = 0 /\ handled = 0 /\ nevents = 0 /\ held = {}
  /\ trace = <<>>
  /\ codec = [at |-> "idle", packet |-> NoPacket, data |-> <<>>,
              decoded |-> NoPacket]

\* while running: ... pygame.event.get() returns the events that arrived
\* since the last call (limit bounds the events of one run)
GetEvents(limit) ==
  /\ pc = "get" /\ running
  /\ \E n \in 0..MaxPending :
       /\ nevents + n <= limit
       /\ pending' = n /\ fetched' = n /\ nevents' = nevents + n
  /\ handled' = 0 /\ pc' = "drain"
  /\ UNCHANGED <<sender, globals, running, event, sock, sent, held, trace, codec>>

\* the keyboard: an axis key goes down only when it is up, and up only when
\* it is down (the other keys are not tracked: their KEYUP does nothing)
Deliverable(e) ==
  /\ (e.type = "KEYDOWN" /\ e.key \in AxisKeys) => e.key \notin held
  /\ (e.type = "KEYUP" /\ e.key \in AxisKeys) => e.key \in held
HeldAfter(e) ==
  CASE e.type = "KEYDOWN" /\ e.key \in AxisKeys -> held \cup {e.key}
    [] e.type = "KEYUP" /\ e.key \in AxisKeys -> held \ {e.key}
    [] OTHER -> held

\* the for loop takes the next event of the list, one of `alphabet`, and runs
\* its branch of the if/elif chain on the event type
OnEvent(type, alphabet, record) ==
  /\ pc = "drain" /\ pending > 0
  /\ \E e \in alphabet :
       /\ e.type = type
       /\ Deliverable(e)
       /\ held' = HeldAfter(e)
       /\ event' = e
       /\ Install(Handle(World, e))
       /\ trace' = IF record THEN Append(trace, e) ELSE trace
  /\ pending' = pending - 1
  /\ handled' = handled + 1
  /\ UNCHANGED <<sender, pc, sock, fetched, nevents, codec>>

\* mutant: the periodic send without the test of enabled
PeriodicSend_always(w) ==
  IF w.sender = "attitude"
  THEN send_attitude(w, w.roll, w.pitch, w.yaw, w.thrust, "periodic")
  ELSE send_velocity_body(w, w.velocity_x, w.velocity_y, w.velocity_z,
                          w.yaw_rate, "periodic")

\* after the for loop: if enabled: send the current command
PeriodicSend(w) ==
  IF w.enabled
  THEN IF w.sender = "attitude"
       THEN send_attitude(w, w.roll, w.pitch, w.yaw, w.thrust, "periodic")
       ELSE send_velocity_body(w, w.velocity_x, w.velocity_y, w.velocity_z,
                               w.yaw_rate, "periodic")
  ELSE w

\* mutant: the send is reached from inside the for loop
DrainDone_early == pc = "drain"

\* the for loop is exhausted
DrainDone == pc = "drain" /\ pending = 0

Transmit ==
  /\ DrainDone
  /\ Install(PeriodicSend(World))
  /\ pc' = "sent"
  /\ UNCHANGED <<sender, pending, event, sock, fetched, handled, nevents, held,
                 trace, codec>>

\* the buttons are drawn, clock.tick waits for the next period and the while
\* condition is tested; the history of the iteration is dropped
Tick ==
  /\ pc = "sent"
  /\ IF running
     THEN /\ pc' = "get" /\ sent' = <<>> /\ event' = NoEvent
          /\ fetched' = 0 /\ handled' = 0
     ELSE /\ pc' = "close"
          /\ UNCHANGED <<sent, event, fetched, handled>>
  /\ UNCHANGED <<sender, globals, running, pending, sock, nevents, held, trace, codec>>

\* sock.close() after the loop
Close ==
  /\ pc = "close"
  /\ sock' = "closed" /\ pc' = "done"
  /\ UNCHANGED <<sender, globals, running, pending, event, sent, fetched,
                 handled, nevents, held, trace, codec>>

\* ---------------------------------------------------------- specifications
\* every key and every button, either sender
Next ==
  \/ GetEvents(MaxEvents)
  \/ OnEvent("QUIT", AllEvents(sender), FALSE)
  \/ OnEvent("KEYDOWN", AllEvents(sender), FALSE)
  \/ OnEvent("KEYUP", AllEvents(sender), FALSE)
  \/ OnEvent("MOUSEBUTTONDOWN", AllEvents(sender), FALSE)
  \/ OnEvent("MOUSEBUTTONUP", AllEvents(sender), FALSE)
  \/ Transmit
  \/ Tick
  \/ Close
Spec == Init /\ [][Next]_vars

\* the operator never switches the control law: no M key, no Mode button
InstantEvents(snd) ==
  {e \in AllEvents(snd) :
     ~ (e.type = "KEYDOWN" /\ e.key = "K_m")
     /\ ~ (e.type = "MOUSEBUTTONDOWN" /\ is_clicked(ButtonNamed(snd, "Mode"), e.pos))}
NextInstant ==
  \/ GetEvents(MaxEvents)
  \/ OnEvent("QUIT", InstantEvents(sender), FALSE)
  \/ OnEvent("KEYDOWN", InstantEvents(sender), FALSE)
  \/ OnEvent("KEYUP", InstantEvents(sender), FALSE)
  \/ OnEvent("MOUSEBUTTONDOWN", InstantEvents(sender), FALSE)
  \/ OnEvent("MOUSEBUTTONUP", InstantEvents(sender), FALSE)
  \/ Transmit
  \/ Tick
  \/ Close
SpecInstant == Init /\ [][NextInstant]_vars

\* the name of the button of an input in either layout
ButtonOf(snd, input) ==
  CASE input = "roll-right" -> IF snd = "attitude" THEN "Roll Right" ELSE "Right"
    [] input = "pitch-up" -> IF snd = "attitude" THEN "Pitch Up" ELSE "Forward"
    [] input = "yaw-right" -> "Yaw Right"

\* scenario: Enable and the roll-right input (key D, its button), recorded
RollEvents(snd) ==
  {Event("QUIT", NoKey, NoPos), Event("MOUSEBUTTONUP", NoKey, NoPos),
   Event("KEYDOWN", "K_e", NoPos), Event("KEYDOWN", "K_d", NoPos),
   Event("KEYUP", "K_d", NoPos),
   Event("MOUSEBUTTONDOWN", NoKey, Centre(ButtonNamed(snd, ButtonOf(snd, "roll-right"))))}
MaxRollEvents == 3
NextRoll ==
  \/ GetEvents(MaxRollEvents)
  \/ OnEvent("QUIT", RollEvents(sender), TRUE)
  \/ OnEvent("KEYDOWN", RollEvents(sender), TRUE)
  \/ OnEvent("KEYUP", RollEvents(sender), TRUE)
  \/ OnEvent("MOUSEBUTTONDOWN", RollEvents(sender), TRUE)
  \/ OnEvent("MOUSEBUTTONUP", RollEvents(sender), TRUE)
  \/ Transmit
  \/ Tick
  \/ Close
SpecRoll == Init /\ [][NextRoll]_vars

\* scenario: Enable, ToggleMode and the pitch-up input (key W, its button),
\* recorded
PitchEvents(snd) ==
  {Event("QUIT", NoKey, NoPos), Event("MOUSEBUTTONUP", NoKey, NoPos),
   Event("KEYDOWN", "K_e", NoPos), Event("KEYDOWN", "K_m", NoPos),
   Event("KEYDOWN", "K_w", NoPos), Event("KEYUP", "K_w", NoPos),
   Event("MOUSEBUTTONDOWN", NoKey, Centre(ButtonNamed(snd, ButtonOf(snd, "pitch-up"))))}
MaxPitchEvents == 5
NextPitch ==
  \/ GetEvents(MaxPitchEvents)
  \/ OnEvent("QUIT", PitchEvents(sender), TRUE)
  \/ OnEvent("KEYDOWN", PitchEvents(sender), TRUE)
  \/ OnEvent("KEYUP", PitchEvents(sender), TRUE)
  \/ OnEvent("MOUSEBUTTONDOWN", PitchEvents(sender), TRUE)
  \/ OnEvent("MOUSEBUTTONUP", PitchEvents(sender), TRUE)
  \/ Transmit
  \/ Tick
  \/ Close
SpecPitch == Init /\ [][NextPitch]_vars

\* scenario: the thrust inputs (Up and Down keys, the ninth and tenth button:
\* Increase Thrust and Decrease Thrust, Ascend and Descend) with Enable,
\* Disable, Hold and ToggleMode, long enough to run thrust from 0.5 into
\* either end of its range
ThrustEvents(snd) ==
  {Event("QUIT", NoKey, NoPos), Event("MOUSEBUTTONUP", NoKey, NoPos),
   Event("KEYDOWN", "K_e", NoPos), Event("KEYDOWN", "K_c", NoPos),
   Event("KEYDOWN", "K_m", NoPos), Event("KEYDOWN", "K_h", NoPos),
   Event("KEYDOWN", "K_UP", NoPos), Event("KEYUP", "K_UP", NoPos),
   Event("KEYDOWN", "K_DOWN", NoPos), Event("KEYUP", "K_DOWN", NoPos),
   Event("MOUSEBUTTONDOWN", NoKey, Centre(buttons(snd)[9])),
   Event("MOUSEBUTTONDOWN", NoKey, Centre(buttons(snd)[10]))}
MaxThrustEvents == 28
NextThrust ==
  \/ GetEvents(MaxThrustEvents)
  \/ OnEvent("QUIT", ThrustEvents(sender), FALSE)
  \/ OnEvent("KEYDOWN", ThrustEvents(sender), FALSE)
  \/ OnEvent("KEYUP", ThrustEvents(sender), FALSE)
  \/ OnEvent("MOUSEBUTTONDOWN", ThrustEvents(sender), FALSE)
  \/ OnEvent("MOUSEBUTTONUP", ThrustEvents(sender), FALSE)
  \/ Transmit
  \/ Tick
  \/ Close
SpecThrust == Init /\ [][NextThrust]_vars

\* scenario: Enable and the yaw-right input (Right key, its button), recorded
YawEvents(snd) ==
  {Event("QUIT", NoKey, NoPos), Event("MOUSEBUTTONUP", NoKey, NoPos),
   Event("KEYDOWN", "K_e", NoPos), Event("KEYDOWN", "K_RIGHT", NoPos),
   Event("KEYUP", "K_RIGHT", NoPos),
   Event("MOUSEBUTTONDOWN", NoKey, Centre(ButtonNamed(snd, ButtonOf(snd, "yaw-right"))))}
MaxYawEvents == 3
NextYaw ==
  \/ GetEvents(MaxYawEvents)
  \/ OnEvent("QUIT", YawEvents(sender), TRUE)
  \/ OnEvent("KEYDOWN", YawEvents(sender), TRUE)
  \/ OnEvent("KEYUP", YawEvents(sender), TRUE)
  \/ OnEvent("MOUSEBUTTONDOWN", YawEvents(sender), TRUE)
  \/ OnEvent("MOUSEBUTTONUP", YawEvents(sender), TRUE)
  \/ Transmit
  \/ Tick
  \/ Close
SpecYaw == Init /\ [][NextYaw]_vars

\* the codec on its own: a valid packet (one mode's subset used, the other
\* fields zero) is constructed, packed, and the buffer decoded
MaxField == 2
FieldValues == (0 - MaxField) .. MaxField
ValidPackets ==
  {ControlPacket("ATTITUDE_CONTROL", e, y, <<0, 0, 0>>, <<0, 0, 0>>,
                 <<0, 0, 0>>, <<a, b, c, d>>, <<0, 0, 0>>) :
     e \in BOOLEAN, y \in BOOLEAN, a \in FieldValues, b \in FieldValues,
     c \in FieldValues, d \in 0 .. MaxField}
  \cup
  {ControlPacket("VELOCITY_BODY", e, y, <<0, 0, 0>>, <<a, b, c>>,
                 <<0, 0, 0>>, <<0, 0, 0, 0>>, <<0, 0, d>>) :
     e \in BOOLEAN, y \in BOOLEAN, a \in FieldValues, b \in FieldValues,
     c \in FieldValues, d \in FieldValues}

Construct ==
  /\ codec.at = "idle"
  /\ \E p \in ValidPackets :
       codec' = [codec EXCEPT !.at = "packet", !.packet = p]
  /\ UNCHANGED <<sender, globals, running, pc, pending, event, sock, sent,
                 fetched, handled, nevents, held, trace>>
Pack ==
  /\ codec.at = "packet"
  /\ codec' = [codec EXCEPT !.at = "packed", !.data = pack(codec.packet)]
  /\ UNCHANGED <<sender, globals, running, pc, pending, event, sock, sent,
                 fetched, handled, nevents, held, trace>>
Decode ==
  /\ codec.at = "packed"
  /\ codec' = [codec EXCEPT !.at = "decoded", !.decoded = decode(codec.data)]
  /\ UNCHANGED <<sender, globals, running, pc, pending, event, sock, sent,
                 fetched, handled, nevents, held, trace>>
NextCodec ==
  \/ Construct
  \/ Pack
  \/ Decode
SpecCodec == Init /\ [][NextCodec]_vars

\* scenario: Enable and Disable (keys and buttons) around the roll-right
\* input, recorded
DisableEvents(snd) ==
  {Event("QUIT", NoKey, NoPos), Event("MOUSEBUTTONUP", NoKey, NoPos),
   Event("KEYDOWN", "K_e", NoPos), Event("KEYDOWN", "K_c", NoPos),
   Event("KEYDOWN", "K_d", NoPos), Event("KEYUP", "K_d", NoPos),
   Event("MOUSEBUTTONDOWN", NoKey, Centre(ButtonNamed(snd, "Enable"))),
   Event("MOUSEBUTTONDOWN", NoKey, Centre(ButtonNamed(snd, "Disable")))}
MaxDisableEvents == 4
NextDisable ==
  \/ GetEvents(MaxDisableEvents)
  \/ OnEvent("QUIT", DisableEvents(sender), TRUE)
  \/ OnEvent("KEYDOWN", DisableEvents(sender), TRUE)
  \/ OnEvent("KEYUP", DisableEvents(sender), TRUE)
  \/ OnEvent("MOUSEBUTTONDOWN", DisableEvents(sender), TRUE)
  \/ OnEvent("MOUSEBUTTONUP", DisableEvents(sender), TRUE)
  \/ Transmit
  \/ Tick
  \/ Close
SpecDisable == Init /\ [][NextDisable]_vars

\* ------------------------------------------------------ vocabulary of claims
\* this step is one pass of the for loop's body
Handling == pc = "drain" /\ handled' = handled + 1

Sites(site) == {i \in DOMAIN sent : sent[i].site = site}

IsKeyDown(e, key) == e.type = "KEYDOWN" /\ e.key = key
IsKeyUp(e, key) == e.type = "KEYUP" /\ e.key = key
IsClickOn(e, snd, text) ==
  e.type = "MOUSEBUTTONDOWN" /\ is_clicked(ButtonNamed(snd, text), e.pos)

\* the abstract events of the state machine, from the key or the button
IsEnable(e, snd) == IsKeyDown(e, "K_e") \/ IsClickOn(e, snd, "Enable")
IsDisable(e, snd) == IsKeyDown(e, "K_c") \/ IsClickOn(e, snd, "Disable")
IsHold(e, snd) == IsKeyDown(e, "K_h") \/ IsClickOn(e, snd, "Hold")
IsToggleMode(e, snd) == IsKeyDown(e, "K_m") \/ IsClickOn(e, snd, "Mode")

AxisButtons(snd) ==
  {buttons(snd)[i].text : i \in {j \in DOMAIN buttons(snd) :
                                   buttons(snd)[j].release_action # <<>>}}
IsAxisPress(e, snd) ==
  \/ e.type = "KEYDOWN" /\ e.key \in AxisKeys
  \/ \E t \in AxisButtons(snd) : IsClickOn(e, snd, t)
IsAxisRelease(e) ==
  \/ e.type = "KEYUP" /\ e.key \in AxisKeys
  \/ e.type = "MOUSEBUTTONUP"

\* the four axes of the running sender, and their neutral values
Axes ==
  IF sender = "attitude" THEN <<roll, pitch, yaw, thrust>>
  ELSE <<velocity_x, velocity_y, velocity_z, yaw_rate>>
Neutral ==
  IF sender = "attitude" THEN <<0, 0, 0, NEUTRAL_THRUST>> ELSE <<0, 0, 0, 0>>

\* the four mode fields of a packet
ModeFields(p) ==
  IF p.mode = "ATTITUDE_CONTROL" THEN p.attitude
  ELSE <<p.velocity[1], p.velocity[2], p.velocity[3], p.attitude_rate[3]>>

\* a neutral/zero command: every mode field zero (thrust zero or neutral)
IsNeutralPacket(p) ==
  /\ ModeFields(p)[1] = 0 /\ ModeFields(p)[2] = 0 /\ ModeFields(p)[3] = 0
  /\ ModeFields(p)[4] \in {0, Neutral[4]}

\* ------------------------------------------------------------------------ C1
\* C1: handling Disable (key C or the Disable button), from any axis values
\* and under either law, sets enabled to false and sends exactly one packet,
\* which has enable_flag = false and neutral mode fields.
C1_DisableSendsOneDisabledNeutralPacket ==
  [][(Handling /\ IsDisable(event', sender))
       => /\ enabled' = FALSE
          /\ Len(sent') = Len(sent) + 1
          /\ sent'[Len(sent')].packet.enable_flag = FALSE
          /\ IsNeutralPacket(sent'[Len(sent')].packet)]_vars

\* ------------------------------------------------------------------------ C2
\* C2: when the Quit key was the last event handled, the program ends with the
\* Quit key's neutral packet as the last packet on the wire: no packet with
\* the current axis values follows it, enabled or not.
C2_QuitPacketIsLast ==
  (pc = "done" /\ IsKeyDown(event, "K_q"))
    => /\ sent # <<>>
       /\ sent[Len(sent)].site = "K_q"
       /\ IsNeutralPacket(sent[Len(sent)].packet)

\* ------------------------------------------------------------------------ C3
\* C3: whenever the socket has been closed, a neutral/zero packet was sent in
\* the iteration that left the loop (Quit key and window close alike).
C3_NeutralPacketBeforeClose ==
  sock = "closed" => \E i \in DOMAIN sent : IsNeutralPacket(sent[i].packet)

\* ------------------------------------------------------------------------ C4
\* C4: every packet sent while enabled is false is a one-shot neutral packet
\* of Disable or Quit, and a periodic packet is only sent while enabled.
C4_NothingButNeutralWhileDisabled ==
  \A i \in DOMAIN sent :
    /\ sent[i].enabled = FALSE
         => /\ sent[i].site \in {"disable_control", "K_q"}
            /\ IsNeutralPacket(sent[i].packet)
    /\ sent[i].site = "periodic" => sent[i].enabled = TRUE

\* an iteration ended disabled with an axis off neutral: only Disable's packet
C4_Witness ==
  /\ pc = "sent" /\ ~ enabled /\ Axes # Neutral
  /\ Len(sent) = 1 /\ sent[1].site = "disable_control"

\* ------------------------------------------------------------------------ C5
\* C5: the periodic packet is sent only after every event of the iteration
\* was applied, each once; if enabled it is exactly one packet, the last of
\* the iteration, carrying the axis values as they stand after the events; if
\* not enabled there is none.
C5_PeriodicSendAfterDrain ==
  /\ pc = "drain" => Sites("periodic") = {}
  /\ pc = "sent" =>
       /\ pending = 0 /\ handled = fetched
       /\ enabled => /\ Sites("periodic") = {Len(sent)}
                     /\ ModeFields(sent[Len(sent)].packet) = Axes
       /\ ~ enabled => Sites("periodic") = {}

C5_Witness ==
  /\ pc = "sent" /\ fetched = 2 /\ handled = 2 /\ enabled
  /\ Axes # Neutral /\ Sites("periodic") = {Len(sent)}

\* ------------------------------------------------------------------------ C6
\* C6: while enabled is false, handling an axis-press or an axis-release event
\* (key or button, either law) changes no control variable and sends nothing.
C6_AxisEventsIgnoredWhileDisabled ==
  [][(Handling /\ ~ enabled
        /\ (IsAxisPress(event', sender) \/ IsAxisRelease(event')))
       => UNCHANGED <<globals, sent>>]_vars

\* the axes a release event resets under the instant-reset law: the axis of
\* the key, or of every button for the mouse (1 2 3 4 as in Axes)
AxisOfKey(snd, key) ==
  IF snd = "attitude"
  THEN CASE key \in {"K_a", "K_d"} -> 1 [] key \in {"K_w", "K_s"} -> 2
         [] key \in {"K_LEFT", "K_RIGHT"} -> 3 [] key \in {"K_UP", "K_DOWN"} -> 4
  ELSE CASE key \in {"K_w", "K_s"} -> 1 [] key \in {"K_a", "K_d"} -> 2
         [] key \in {"K_UP", "K_DOWN"} -> 3 [] key \in {"K_LEFT", "K_RIGHT"} -> 4
ReleasedAxes(snd, e) ==
  IF e.type = "MOUSEBUTTONUP" THEN 1..4 ELSE {AxisOfKey(snd, e.key)}
\* thrust, the axis release never resets
Sticky(snd) == IF snd = "attitude" THEN {4} ELSE {}

\* C6 amended: while enabled is false an axis-press event changes nothing and
\* sends nothing; an axis-release event is not gated by enabled: under the
\* instant-reset law it resets its axes to neutral (thrust excepted), under
\* the incremental law it changes nothing; it never sends.
C6_PressIgnoredReleaseNotGated ==
  [][(Handling /\ ~ enabled) =>
       /\ IsAxisPress(event', sender) => UNCHANGED <<globals, sent>>
       /\ IsAxisRelease(event') =>
            /\ UNCHANGED <<enabled, INCREMENTAL_MODE, sent>>
            /\ \A i \in 1..4 :
                 Axes'[i] = IF /\ ~ INCREMENTAL_MODE
                               /\ i \in ReleasedAxes(sender, event') \ Sticky(sender)
                            THEN Neutral[i] ELSE Axes[i]]_vars

\* a press was handled while disabled, with an axis off neutral
C6_Witness ==
  /\ pc = "drain" /\ handled > 0 /\ ~ enabled
  /\ IsAxisPress(event, sender) /\ Axes # Neutral

\* ------------------------------------------------------------------------ C8
\* C8: under the instant-reset law, handling an axis-release event puts the
\* released axis back to neutral, thrust (0.5) included.
C8_ReleaseSnapsEveryAxisToNeutral ==
  [][(Handling /\ ~ INCREMENTAL_MODE /\ IsAxisRelease(event'))
       => \A i \in ReleasedAxes(sender, event') : Axes'[i] = Neutral[i]]_vars

\* C8 amended: under the instant-reset law, handling an axis-release event
\* puts the released axis back to neutral, except thrust: the release of a
\* thrust input of the attitude sender leaves thrust at the value it has.
C8_ReleaseSnapsToNeutralExceptThrust ==
  [][(Handling /\ ~ INCREMENTAL_MODE /\ IsAxisRelease(event'))
       => \A i \in ReleasedAxes(sender, event') :
            Axes'[i] = IF i \in Sticky(sender) THEN Axes[i] ELSE Neutral[i]]_vars

\* a thrust key was released under the instant-reset law; thrust is off 0.5
C8_Witness ==
  /\ sender = "attitude" /\ pc = "drain" /\ handled > 0 /\ ~ INCREMENTAL_MODE
  /\ event.type = "KEYUP" /\ event.key \in {"K_UP", "K_DOWN"}
  /\ thrust # NEUTRAL_THRUST

\* ------------------------------------------------------------------------ C9
\* the step of axis i of a sender
StepOf(snd, i) ==
  IF snd = "attitude"
  THEN CASE i = 3 -> YAW_RATE_STEP [] i = 4 -> THRUST_STEP
         [] OTHER -> ROLL_PITCH_STEP
  ELSE (IF i = 4 THEN YAW_RATE_STEP ELSE DEFAULT_SPEED)
\* C9: with the control law never toggled (SpecInstant), every non-thrust
\* axis is exactly neutral, +step or -step, whatever was pressed or released.
C9_InstantLawNeverAccumulates ==
  \A i \in (1..4) \ Sticky(sender) :
    Axes[i] \in {Neutral[i], Neutral[i] + StepOf(sender, i),
                 Neutral[i] - StepOf(sender, i)}

\* ------------------------------------------------------------------------ C7
\* the events of the scenarios
EnableKey == Event("KEYDOWN", "K_e", NoPos)
ModeKey == Event("KEYDOWN", "K_m", NoPos)
\* a press of `input` by its key or its button, and the release that matches
Press(input, key) ==
  {Event("KEYDOWN", key, NoPos),
   Event("MOUSEBUTTONDOWN", NoKey, Centre(ButtonNamed(sender, ButtonOf(sender, input))))}
Matches(p, r, key) ==
  \/ p.type = "KEYDOWN" /\ r = Event("KEYUP", key, NoPos)
  \/ p.type = "MOUSEBUTTONDOWN" /\ r = Event("MOUSEBUTTONUP", NoKey, NoPos)

\* the axis the roll-right input (key D) drives, and its step
RollAxis == IF sender = "attitude" THEN 1 ELSE 2
\* the periodic packet of this iteration carries value v on axis i
Carries(i, v) ==
  pc = "sent" => (sent # <<>> /\ sent[Len(sent)].site = "periodic"
                  /\ ModeFields(sent[Len(sent)].packet)[i] = v)

\* C7: instant-reset law, from neutral: after Enable and a roll-right press
\* the roll axis is one step off neutral and stays there, on every following
\* tick (whose packet carries it), until the next event; after the matching
\* release it is neutral again.
C7_RollRightPressThenRelease ==
  /\ (Len(trace) = 2 /\ trace[1] = EnableKey
        /\ trace[2] \in Press("roll-right", "K_d"))
       => /\ Axes[RollAxis] = Neutral[RollAxis] + StepOf(sender, RollAxis)
          /\ Carries(RollAxis, Neutral[RollAxis] + StepOf(sender, RollAxis))
  /\ (Len(trace) = 3 /\ trace[1] = EnableKey
        /\ trace[2] \in Press("roll-right", "K_d")
        /\ Matches(trace[2], trace[3], "K_d"))
       => /\ Axes[RollAxis] = Neutral[RollAxis]
          /\ Carries(RollAxis, Neutral[RollAxis])

\* Enable, key D down, key D up, and the packet of that tick is out
C7_Witness ==
  /\ trace = <<EnableKey, Event("KEYDOWN", "K_d", NoPos), Event("KEYUP", "K_d", NoPos)>>
  /\ pc = "sent" /\ enabled /\ ~ INCREMENTAL_MODE
  /\ Axes[RollAxis] = Neutral[RollAxis]

\* ----------------------------------------------------------------------- C10
\* the axis the pitch-up input (key W) drives and what one press adds to it
\* under the incremental law: pitch - 2.0, velocity_x + 1.0
PitchAxis == IF sender = "attitude" THEN 2 ELSE 1
PitchUpDelta == IF sender = "attitude" THEN - ROLL_PITCH_STEP ELSE DEFAULT_SPEED

PitchInputs ==
  Press("pitch-up", "K_w")
    \cup {Event("KEYUP", "K_w", NoPos), Event("MOUSEBUTTONUP", NoKey, NoPos)}
Presses(t) == Cardinality({i \in DOMAIN t : t[i] \in Press("pitch-up", "K_w")})

\* Enable and ToggleMode (in either order) and then only pitch-up presses and
\* releases
IncrementalPitchRun ==
  /\ Len(trace) >= 2
  /\ {trace[1], trace[2]} = {EnableKey, ModeKey}
  /\ \A i \in 3..Len(trace) : trace[i] \in PitchInputs

\* C10: incremental law, from neutral: after ToggleMode and Enable, n pitch-up
\* presses leave pitch at neutral - n x step (n = 3: -6.0), whatever releases
\* come between or after them; and handling any axis release under the
\* incremental law changes no control variable.
C10_IncrementalPitchUp ==
  /\ [](IncrementalPitchRun
          => /\ Axes[PitchAxis]
                  = Neutral[PitchAxis] + Presses(trace) * PitchUpDelta
             /\ \A i \in (1..4) \ {PitchAxis} : Axes[i] = Neutral[i])
  /\ [][(Handling /\ INCREMENTAL_MODE /\ IsAxisRelease(event'))
          => UNCHANGED globals]_vars

\* ToggleMode, Enable and three presses of pitch-up: pitch = -6.0
C10_Witness ==
  /\ sender = "attitude" /\ IncrementalPitchRun /\ Presses(trace) = 3
  /\ pitch = 0 - 3 * ROLL_PITCH_STEP

\* ----------------------------------------------------------------------- C11
\* the axis a button drives (1 2 3 4 as in Axes)
AxisOfButton(snd, text) ==
  IF snd = "attitude"
  THEN CASE text \in {"Roll Left", "Roll Right"} -> 1
         [] text \in {"Pitch Up", "Pitch Down"} -> 2
         [] text \in {"Yaw Left", "Yaw Right"} -> 3
         [] text \in {"Increase Thrust", "Decrease Thrust"} -> 4
  ELSE CASE text \in {"Forward", "Backward"} -> 1
         [] text \in {"Left", "Right"} -> 2
         [] text \in {"Ascend", "Descend"} -> 3
         [] text \in {"Yaw Left", "Yaw Right"} -> 4
\* the axis of an axis-press event
PressedAxis(snd, e) ==
  IF e.type = "KEYDOWN" THEN AxisOfKey(snd, e.key)
  ELSE AxisOfButton(snd, CHOOSE t \in AxisButtons(snd) : IsClickOn(e, snd, t))
\* v one step up or down, thrust clamped to [0, 1]
OneStepFrom(snd, i, v) ==
  IF i \in Sticky(snd)
  THEN {Min(v + StepOf(snd, i), THRUST_MAX), Max(v - StepOf(snd, i), THRUST_MIN)}
  ELSE {v + StepOf(snd, i), v - StepOf(snd, i)}

\* C11: under the incremental law with enabled true, handling an axis-press
\* event (any of the eight inputs, key or button, either sender, yaw included)
\* moves the axis of the input by exactly one step, up or down (thrust
\* clamped), and leaves the other axes as they were.
C11_IncrementalPressIsOneStep ==
  [][(Handling /\ enabled /\ INCREMENTAL_MODE /\ IsAxisPress(event', sender))
       => /\ Axes'[PressedAxis(sender, event')]
               \in OneStepFrom(sender, PressedAxis(sender, event'),
                               Axes[PressedAxis(sender, event')])
          /\ \A i \in (1..4) \ {PressedAxis(sender, event')} :
               Axes'[i] = Axes[i]]_vars

\* ----------------------------------------------------------------------- C12
\* C12: in the attitude sender thrust is within [0.0, 1.0] in every state, and
\* so is the thrust of every packet sent, whatever thrust presses, releases,
\* Hold, Disable and law switches were handled.
C12_ThrustWithinRange ==
  sender = "attitude" =>
    /\ THRUST_MIN <= thrust /\ thrust <= THRUST_MAX
    /\ \A i \in DOMAIN sent :
         /\ THRUST_MIN <= sent[i].packet.attitude[4]
         /\ sent[i].packet.attitude[4] <= THRUST_MAX

\* thrust was run up to 1.0 and the tick's packet carries it
C12_Witness ==
  /\ sender = "attitude" /\ pc = "sent" /\ thrust = THRUST_MAX
  /\ Sites("periodic") # {} /\ sent[Len(sent)].packet.attitude[4] = THRUST_MAX

\* ----------------------------------------------------------------------- C13
\* C13: every packet sent (periodic, Disable, Quit) has the mode of its sender
\* and zero in every field outside that mode's subset: attitude packets have
\* zero position, velocity, acceleration and attitude_rate; velocity packets
\* have zero position, acceleration, attitude, roll rate and pitch rate.
C13_ModePurity ==
  \A i \in DOMAIN sent :
    LET p == sent[i].packet IN
      /\ p.mode = IF sender = "attitude" THEN "ATTITUDE_CONTROL"
                                         ELSE "VELOCITY_BODY"
      /\ p.position = <<0, 0, 0>> /\ p.acceleration = <<0, 0, 0>>
      /\ p.mode = "ATTITUDE_CONTROL"
           => p.velocity = <<0, 0, 0>> /\ p.attitude_rate = <<0, 0, 0>>
      /\ p.mode = "VELOCITY_BODY"
           => /\ p.attitude = <<0, 0, 0, 0>>
              /\ p.attitude_rate[1] = 0 /\ p.attitude_rate[2] = 0

\* a velocity packet with a velocity and a yaw rate off zero is out
C13_Witness ==
  /\ sender = "velocity_body" /\ pc = "sent" /\ Sites("periodic") # {}
  /\ sent[Len(sent)].packet.attitude_rate[3] # 0
  /\ sent[Len(sent)].packet.velocity # <<0, 0, 0>>

C15_HoldSendsNeutralPacket ==
  (pc = "sent" /\ IsHold(event, sender))
    => \E i \in DOMAIN sent : IsNeutralPacket(sent[i].packet)

\* C15 amended: Hold sends no packet by itself. When Hold was the last event
\* of a tick and enabled is true, the tick's one periodic packet carries the
\* neutral values; when enabled is false the tick has no periodic packet, so
\* nothing is sent for Hold.
C15_HoldSendsNothingItself ==
  /\ []((pc = "sent" /\ IsHold(event, sender))
          => IF enabled
             THEN /\ Sites("periodic") = {Len(sent)}
                  /\ ModeFields(sent[Len(sent)].packet) = Neutral
             ELSE Sites("periodic") = {})
  /\ [][(Handling /\ IsHold(event', sender)) => sent' = sent]_vars

\* Hold was the only event of a tick, disabled: the tick sent nothing
C15_Witness ==
  /\ pc = "sent" /\ IsHold(event, sender) /\ ~ enabled
  /\ handled = 1 /\ sent = <<>>

\* ----------------------------------------------------------------------- C16
\* C16: handling ToggleMode (key M or the Mode button) flips the control law
\* and changes nothing else: the axis values and enabled stay and nothing is
\* sent (so two in a row restore the law); and when ToggleMode was the last
\* event of a tick with enabled true, the tick's packet carries the axis
\* values kept across the switch.
C16_ToggleModeOnlyFlipsLaw ==
  /\ [][(Handling /\ IsToggleMode(event', sender))
          => /\ INCREMENTAL_MODE' = ~ INCREMENTAL_MODE
             /\ Axes' = Axes
             /\ UNCHANGED <<enabled, sent>>]_vars
  /\ []((pc = "sent" /\ IsToggleMode(event, sender) /\ enabled)
          => /\ Sites("periodic") = {Len(sent)}
             /\ ModeFields(sent[Len(sent)].packet) = Axes)

\* attitude sender: pitch -2.0 from a W press under the incremental law is
\* still there, W down, after the switch back to the instant-reset law, and
\* the tick's packet carries it
C16_Witness ==
  /\ sender = "attitude" /\ pc = "sent" /\ IsToggleMode(event, sender)
  /\ enabled /\ ~ INCREMENTAL_MODE /\ held = {"K_w"}
  /\ pitch = 0 - ROLL_PITCH_STEP
  /\ sent # <<>> /\ sent[Len(sent)].packet.attitude[2] = 0 - ROLL_PITCH_STEP

\* ----------------------------------------------------------------------- C17
\* C17: handling Enable (key E or the Enable button) sets enabled to true,
\* changes no axis value and not the control law, and sends nothing; handled
\* while enabled is already true it changes nothing at all.
C17_EnableOnlySetsEnabled ==
  [][(Handling /\ IsEnable(event', sender))
       => /\ enabled' = TRUE
          /\ Axes' = Axes
          /\ UNCHANGED <<INCREMENTAL_MODE, sent>>
          /\ enabled => UNCHANGED globals]_vars

\* Enable was handled with an axis off neutral: enabled was true already
C17_Witness ==
  /\ pc = "drain" /\ handled > 0 /\ IsEnable(event, sender)
  /\ enabled /\ Axes # Neutral

\* ----------------------------------------------------------------------- C18
\* sock.sendto raises OSError: neither send function nor main has a try
\* statement, so the exception leaves the handler, the loop and main; pc
\* "raised" is the program ended by the traceback (sock.close() not reached).
\* disable_control has assigned enabled before its send; the Quit key's send
\* comes before running = False.
disable_control_raises(w) == [w EXCEPT !.enabled = FALSE]
QuitKey_raises(w) == w

\* the handlers that send: key Q, and Disable by key or button
HandleRaises(w, ev) ==
  IF IsKeyDown(ev, "K_q") THEN QuitKey_raises(w) ELSE disable_control_raises(w)

OnEventRaise ==
  /\ pc = "drain" /\ pending > 0
  /\ \E e \in AllEvents(sender) :
       /\ IsKeyDown(e, "K_q") \/ IsDisable(e, sender)
       /\ event' = e
       /\ Install(HandleRaises(World, e))
  /\ pending' = pending - 1
  /\ pc' = "raised"
  /\ UNCHANGED <<sender, sock, fetched, handled, nevents, held, trace, codec>>

\* the periodic send raises
TransmitRaise ==
  /\ DrainDone /\ enabled
  /\ pc' = "raised"
  /\ UNCHANGED <<sender, globals, running, pending, event, sock, sent, fetched,
                 handled, nevents, held, trace, codec>>

\* the program with a transport that can fail
NextSendError ==
  \/ GetEvents(MaxEvents)
  \/ OnEvent("QUIT", AllEvents(sender), FALSE)
  \/ OnEvent("KEYDOWN", AllEvents(sender), FALSE)
  \/ OnEvent("KEYUP", AllEvents(sender), FALSE)
  \/ OnEvent("MOUSEBUTTONDOWN", AllEvents(sender), FALSE)
  \/ OnEvent("MOUSEBUTTONUP", AllEvents(sender), FALSE)
  \/ OnEventRaise
  \/ Transmit
  \/ TransmitRaise
  \/ Tick
  \/ Close
SpecSendError == Init /\ [][NextSendError]_vars

\* C18: a send error (in the periodic send, or in the one-shot send of
\* Disable or Quit) leaves the axis values and the control law as they were
\* and does not end the program: the loop goes on to its next tick.
C18_SendErrorIsNotFatal ==
  /\ [](pc # "raised")
  /\ [][pc' = "raised" => (Axes' = Axes /\ UNCHANGED INCREMENTAL_MODE)]_vars

\* ----------------------------------------------------------------------- C19
\* the axis the yaw-right input (Right key) drives: yaw, yaw_rate
YawAxis == IF sender = "attitude" THEN 3 ELSE 4
\* the tick's packet has enable_flag set
CarriesEnableFlag ==
  pc = "sent" => (sent # <<>> /\ sent[Len(sent)].packet.enable_flag = TRUE)

\* C19: instant-reset law, from neutral: after Enable and a yaw-right press
\* the yaw field (yaw, yaw rate) is 5.0 and the tick's packet carries it with
\* enable_flag = true; after the matching release the field is 0.0, in the
\* state and in the tick's packet.
C19_YawRightPressThenRelease ==
  /\ (Len(trace) = 2 /\ trace[1] = EnableKey
        /\ trace[2] \in Press("yaw-right", "K_RIGHT"))
       => /\ Axes[YawAxis] = YAW_RATE_STEP
          /\ Carries(YawAxis, YAW_RATE_STEP)
          /\ CarriesEnableFlag
  /\ (Len(trace) = 3 /\ trace[1] = EnableKey
        /\ trace[2] \in Press("yaw-right", "K_RIGHT")
        /\ Matches(trace[2], trace[3], "K_RIGHT"))
       => /\ Axes[YawAxis] = 0
          /\ Carries(YawAxis, 0)

\* velocity sender: Enable, Right key down, Right key up, and the packet of
\* that tick is out with yaw rate 0.0
C19_Witness ==
  /\ sender = "velocity_body"
  /\ trace = <<EnableKey, Event("KEYDOWN", "K_RIGHT", NoPos),
               Event("KEYUP", "K_RIGHT", NoPos)>>
  /\ pc = "sent" /\ enabled /\ yaw_rate = 0
  /\ sent[Len(sent)].packet.attitude_rate[3] = 0

AxesOf(w) ==
  IF w.sender = "attitude" THEN <<w.roll, w.pitch, w.yaw, w.thrust>>
  ELSE <<w.velocity_x, w.velocity_y, w.velocity_z, w.yaw_rate>>
\* the pairs of opposite inputs <<press, opposite press, axis>>: the key
\* pairs, and the button pairs (buttons 5 to 12, two by two), thrust left out
OppositePairs(snd) ==
  {pr \in
     {<<Event("KEYDOWN", k[1], NoPos), Event("KEYDOWN", k[2], NoPos),
        AxisOfKey(snd, k[1])>> :
        k \in {<<"K_w", "K_s">>, <<"K_a", "K_d">>, <<"K_UP", "K_DOWN">>,
               <<"K_LEFT", "K_RIGHT">>}}
     \cup
     {<<Event("MOUSEBUTTONDOWN", NoKey, Centre(buttons(snd)[j])),
        Event("MOUSEBUTTONDOWN", NoKey, Centre(buttons(snd)[j + 1])),
        AxisOfButton(snd, buttons(snd)[j].text)>> : j \in {5, 7, 9, 11}} :
     pr[3] \notin Sticky(snd)}

\* C21: with enabled true, the two opposite inputs of an axis (thrust apart)
\* move it in opposite directions: under the instant-reset law, from neutral,
\* one drives the axis as far above neutral as the other drives it below;
\* under the incremental law one press and then the opposite press leave
\* every axis at the value it had.
C21_OppositeInputsAreOpposite ==
  enabled =>
    \A pr \in OppositePairs(sender) :
      /\ (~ INCREMENTAL_MODE /\ Axes = Neutral)
           => /\ AxesOf(Handle(World, pr[1]))[pr[3]] # Neutral[pr[3]]
              /\ AxesOf(Handle(World, pr[1]))[pr[3]] - Neutral[pr[3]]
                   = Neutral[pr[3]] - AxesOf(Handle(World, pr[2]))[pr[3]]
      /\ INCREMENTAL_MODE
           => AxesOf(Handle(Handle(World, pr[1]), pr[2])) = Axes

\* ----------------------------------------------------------------------- C22
\* Enable, one roll-right key press, Disable, Enable, and nothing else
DisableThenEnable ==
  /\ Len(trace) = 4 /\ IsEnable(trace[1], sender)
  /\ trace[2] = Event("KEYDOWN", "K_d", NoPos)
  /\ IsDisable(trace[3], sender) /\ IsEnable(trace[4], sender)

\* C22: handling Disable (key or button) changes enabled only: every axis
\* value and the control law stay; so after Enable, a roll-right press,
\* Disable and Enable again, the roll axis still has the value of the press,
\* enabled is true and the tick's packet carries that value, not neutral.
C22_DisableKeepsAxes ==
  /\ [][(Handling /\ IsDisable(event', sender))
          => /\ Axes' = Axes
             /\ UNCHANGED INCREMENTAL_MODE
             /\ enabled' = FALSE]_vars
  /\ [](DisableThenEnable
          => /\ enabled
             /\ Axes[RollAxis] = Neutral[RollAxis] + StepOf(sender, RollAxis)
             /\ Carries(RollAxis, Neutral[RollAxis] + StepOf(sender, RollAxis)))

\* the tick after Disable and Enable sent the roll value of before Disable
C22_Witness ==
  /\ DisableThenEnable /\ pc = "sent" /\ IsDisable(trace[3], sender)
  /\ Axes[RollAxis] # Neutral[RollAxis]
  /\ Sites("periodic") = {Len(sent)}
  /\ ModeFields(sent[Len(sent)].packet)[RollAxis] # Neutral[RollAxis]

\* ----------------------------------------------------------------------- C23
\* the axes a step changes
ChangedAxes == {i \in 1..4 : Axes'[i] # Axes[i]}

\* C23: under the instant-reset law, handling an axis-release event changes
\* no axis but the one of the input released: a key release leaves every
\* axis but the key's as it was, and a mouse release (over whatever button)
\* changes one axis at most.
C23_ReleaseResetsOneAxis ==
  [][(Handling /\ ~ INCREMENTAL_MODE /\ IsAxisRelease(event'))
       => IF event'.type = "KEYUP"
          THEN ChangedAxes \subseteq {AxisOfKey(sender, event'.key)}
          ELSE Cardinality(ChangedAxes) <= 1]_vars

\* ----------------------------------------------------------------------- C24
\* a Quit key event or a window-close event
IsQuit(e) == IsKeyDown(e, "K_q") \/ e.type = "QUIT"

\* C24: handling the Quit key or the window's close event clears running, and
\* from then on, whatever events follow in the same list, running stays
\* clear, no new list of events is fetched (no further tick), the loop is
\* left at the end of that iteration, after which no event is handled and
\* nothing is sent, and the program ends with the socket closed.
C24_QuitEndsLoopThisIteration ==
  /\ [][(Handling /\ IsQuit(event')) => ~ running']_vars
  /\ [][~ running
          => /\ ~ running'
             /\ pc' # "get" /\ UNCHANGED <<fetched, nevents>>
             /\ pc = "sent" => pc' = "close"]_vars
  /\ [][(pc = "close" \/ pc = "done")
          => UNCHANGED <<globals, event, handled, sent>>]_vars
  /\ [](pc \in {"close", "done"} => ~ running)
  /\ [](pc = "done" => sock = "closed")

\* the program has ended, socket closed, and the last event of the last list
\* came after the Quit key or close event in it
C24_Witness ==
  /\ pc = "done" /\ sock = "closed" /\ ~ running
  /\ fetched = 2 /\ handled = 2 /\ ~ IsQuit(event)

====
